---- MODULE Spec2Model ----
(***************************************************************************)
(* A state-machine model of src/app.py: the retrieval-augmented chat loop  *)
(* (get_embedding, retrieve_context, get_response and the Streamlit chat   *)
(* interface).  Every upstream call (embedding, one index query per        *)
(* namespace, one completion per model) is one step whose outcome is       *)
(* chosen by the environment.                                              *)
(*                                                                         *)
(* Representation of Python values:                                        *)
(*   - opaque texts (prompts, answers, fixed messages) are TLA+ strings;   *)
(*   - a passage text is a sequence of characters, '' is << >>;            *)
(*   - a relevance score is an integer number of thousandths;              *)
(*   - debug_text is the sequence of its f-string expansions, one record   *)
(*     per "--- [Zdroj: .. | Relevence: ..] ---" block, '' is << >>;       *)
(*   - a dict is a record, a missing key is a missing field.               *)
(***************************************************************************)
EXTENDS Integers, Sequences, FiniteSets, TLC

VARIABLES
    messages,        \* st.session_state.messages
    pc,              \* position of the script / of get_response
    prompt,          \* the text returned by st.chat_input (user_input)
    query_vector,    \* retrieve_context: the embedding, NoVector before line 50
    nsIdx,           \* retrieve_context: index of the namespace the loop is at
    queries,         \* log of the index.query calls issued in this turn
    all_matches,     \* retrieve_context: all_matches
    sorted_matches,  \* retrieve_context: sorted_matches
    ranked,          \* the matches whose text line 77 appended to contexts
    context,         \* "\n\n".join(contexts), as returned to get_response
    debug_text,      \* debug_text, as returned to get_response
    modelIdx,        \* get_response: index of the model the loop is at
    calls,           \* log of the messages.create calls issued in this turn
    response_text,   \* chat loop: response_text
    sources_text,    \* chat loop: sources_text
    config,          \* st.secrets, os.environ and PINECONE_API_KEY (lines 9-17)
    previous         \* the record of the turn a later turn is compared with

vars == <<messages, pc, prompt, query_vector, nsIdx, queries, all_matches,
          sorted_matches, ranked, context, debug_text, modelIdx, calls,
          response_text, sources_text, config, previous>>

(***************************************************************************)
(* Program constants                                                       *)
(***************************************************************************)
NAMESPACES == <<"book-mybook-cs", "blog-cs", "podcast_cs">>

models_to_try ==
    <<"claude-3-5-sonnet-latest", "claude-3-opus-latest", "claude-3-haiku-20240307">>

TopK == 3           \* top_k of index.query
ContextCap == 5     \* sorted_matches[:5]
PreviewLen == 300   \* text_content[:300]

NothingFound == "Omlouvam se, ale v databazi jsem nenasla zadne relevantni informace."
ConnectError == "Chyba: Nepodarilo se pripojit k AI."

None == "None"              \* a text not assigned yet
NoTurn == [none |-> TRUE]   \* no turn recorded for comparison
NoVector == [none |-> TRUE] \* query_vector before line 50 assigns it
EmptyStr == << >>

\* the keys the configuration block reads from st.secrets, in its order
SecretsOrder_pineconeFirst == <<"PINECONE_API_KEY", "OPENAI_API_KEY", "ANTHROPIC_API_KEY">>

SecretsOrder == <<"OPENAI_API_KEY", "ANTHROPIC_API_KEY", "PINECONE_API_KEY">>

\* lines 11-12 copy these two into os.environ, line 13 binds the third to a name
EnvironKeys == {"OPENAI_API_KEY", "ANTHROPIC_API_KEY"}

\* the configuration of a process that started with every secret in place
Configured ==
    [secrets |-> {SecretsOrder[i] : i \in 1..3}, preset |-> {},
     environ |-> EnvironKeys, pinecone_key |-> TRUE]

(***************************************************************************)
(* Bounds of the model                                                     *)
(***************************************************************************)
MaxHits == 2        \* length of the exhaustive result lists (at most TopK)
MaxTurns == 2       \* user prompts per session

Min(a, b) == IF a < b THEN a ELSE b

Take(s, n) == SubSeq(s, 1, Min(n, Len(s)))

(***************************************************************************)
(* Inputs                                                                  *)
(***************************************************************************)
Prompts == {"jak zvladat stres", "kdo je Vera\na co rika"}

AnswerTexts == {"odpoved A", "odpoved B"}

\* Scores of the exhaustive result lists, in thousandths (0.704 prints as 0.70
\* and 0.708 as 0.71; neither is a rounding tie).
Scores == {704, 708}

\* The metadata a stored vector of namespace number n can carry: a text, an
\* empty text, or (in the second namespace) no text key at all.
Metadatas(n) ==
    IF n = 2 THEN {[text |-> <<"t">>], [title |-> <<"x">>]}
             ELSE {[text |-> <<"t">>], [text |-> << >>]}

\* The index gives every match the id of its vector, unique in its namespace.
WithIds(h) ==
    [i \in 1..Len(h) |-> [id |-> i, score |-> h[i].score, metadata |-> h[i].metadata]]

\* A query result: at most Min(MaxHits, TopK) matches, best score first.
HitLists(n) ==
    UNION {
        {WithIds(h) : h \in
            {g \in [1..len -> [score : Scores, metadata : Metadatas(n)]] :
                \A i \in 1..(len - 1) : g[i].score >= g[i + 1].score}}
        : len \in 0..Min(MaxHits, TopK)}

\* The scenario of three collections returning three matches each.
ScenarioScores ==
    <<  <<910, 770, 650>>, <<880, 700, 500>>, <<950, 600, 400>>  >>

ScenarioHits(n) ==
    WithIds([i \in 1..3 |->
        [score |-> ScenarioScores[n][i], metadata |-> [text |-> <<"t">>]]])

RichResults(n) == HitLists(n) \cup {ScenarioHits(n)}

\* A small catalogue for the multi-turn session: a namespace returns nothing or
\* its best scenario match, which in the second namespace carries no text.
CoarseResults(n) ==
    { << >>,
      WithIds(<< [score |-> ScenarioScores[n][1],
                  metadata |-> IF n = 2 THEN [title |-> <<"x">>]
                                        ELSE [text |-> <<"t">>]] >>) }

\* The catalogue of an index that also holds a vector stored without metadata
\* (first namespace) and answers with a match that has no score (third one).
MalformedResults(n) ==
    CoarseResults(n) \cup
        (IF n = 1 THEN {<< [id |-> 1, score |-> ScenarioScores[1][1]] >>}
         ELSE IF n = 3 THEN {<< [id |-> 1, metadata |-> [text |-> <<"t">>]] >>}
         ELSE {})

(***************************************************************************)
(* get_embedding (lines 41-46)                                             *)
(***************************************************************************)
\* text.replace("\n", " ") on the prompts of the model
ReplaceNewlines(text) ==
    IF text = "kdo je Vera\na co rika" THEN "kdo je Vera a co rika" ELSE text

\* The vector is a function of the request sent to the embedding service.
get_embedding(text) ==
    [input |-> <<ReplaceNewlines(text)>>, model |-> "text-embedding-3-small"]

(***************************************************************************)
(* retrieve_context (lines 48-81)                                          *)
(***************************************************************************)
Tagged_firstNamespace(hits, ns) ==
    [i \in 1..Len(hits) |->
        [k \in DOMAIN hits[i] \cup {"source_namespace"} |->
            IF k = "source_namespace" THEN NAMESPACES[1] ELSE hits[i][k]]]

\* lines 60-62: each returned match is tagged with its namespace
Tagged(hits, ns) ==
    [i \in 1..Len(hits) |->
        [k \in DOMAIN hits[i] \cup {"source_namespace"} |->
            IF k = "source_namespace" THEN ns ELSE hits[i][k]]]

\* sorted(..., key=score, reverse=True): a stable sort, equal scores keep
\* their order of arrival.
InsertByScore_beforeTies(s, m) ==
    LET ahead == {i \in 1..Len(s) : s[i].score > m.score}
        k == IF ahead = {} THEN 0 ELSE CHOOSE i \in ahead : \A j \in ahead : j <= i
    IN  SubSeq(s, 1, k) \o <<m>> \o SubSeq(s, k + 1, Len(s))

InsertByScore(s, m) ==
    LET ahead == {i \in 1..Len(s) : s[i].score >= m.score}
        k == IF ahead = {} THEN 0 ELSE CHOOSE i \in ahead : \A j \in ahead : j <= i
    IN  SubSeq(s, 1, k) \o <<m>> \o SubSeq(s, k + 1, Len(s))

RECURSIVE SortedFrom(_, _)
SortedFrom(acc, rest) ==
    IF rest = << >> THEN acc
    ELSE SortedFrom(InsertByScore(acc, Head(rest)), Tail(rest))

SortedMatches_unsorted(ms) == ms

SortedMatches(ms) == SortedFrom(<< >>, ms)

TopMatches_uncapped(s) == s

TopMatches(s) == Take(s, ContextCap)

\* match['metadata'].get('text', '')
TextContent(match) ==
    IF "text" \in DOMAIN match.metadata THEN match.metadata.text ELSE EmptyStr

KeepMatch_always(match) == TRUE

\* if text_content:
KeepMatch(match) == TextContent(match) # EmptyStr

\* f"{score:.2f}": thousandths rounded to hundredths
Format2(score) == (score + 5) \div 10

\* one expansion of the f-string of line 79
DebugBlock(match) ==
    [source |-> match.source_namespace,
     relevance |-> Format2(match.score),
     preview |-> Take(TextContent(match), PreviewLen)]

\* "\n\n".join(contexts)
RECURSIVE Join(_)
Join(texts) ==
    IF texts = << >> THEN EmptyStr
    ELSE IF Len(texts) = 1 THEN texts[1]
    ELSE texts[1] \o <<"\n", "\n">> \o Join(Tail(texts))

\* line 50 succeeds
Embed ==
    /\ pc = "embed"
    /\ query_vector' = get_embedding(prompt)
    /\ pc' = "search"
    /\ UNCHANGED <<config, previous>>
    /\ UNCHANGED <<messages, prompt, nsIdx, queries, all_matches, sorted_matches,
                   ranked, context, debug_text, modelIdx, calls, response_text,
                   sources_text>>

EmbedFails_continues ==
    /\ pc = "embed"
    /\ pc' = "search"
    /\ UNCHANGED <<config, previous>>
    /\ UNCHANGED <<messages, prompt, query_vector, nsIdx, queries, all_matches,
                   sorted_matches, ranked, context, debug_text, modelIdx, calls,
                   response_text, sources_text>>

\* lines 51-52: the embedding call raises, retrieve_context returns "", ""
EmbedFails ==
    /\ pc = "embed"
    /\ context' = EmptyStr
    /\ debug_text' = << >>
    /\ pc' = "check"
    /\ UNCHANGED <<config, previous>>
    /\ UNCHANGED <<messages, prompt, query_vector, nsIdx, queries, all_matches,
                   sorted_matches, ranked, modelIdx, calls, response_text,
                   sources_text>>

\* where the loop of line 55 goes after a query that raised
AfterFailedQuery_break(i) == Len(NAMESPACES) + 1

AfterFailedQuery(i) == i + 1

\* lines 55-62: the query of one namespace returns hits, one of results[n] for
\* namespace number n
Query(results) ==
    /\ pc = "search"
    /\ nsIdx <= Len(NAMESPACES)
    /\ \E hits \in results[nsIdx] :
        /\ queries' = Append(queries,
               [namespace |-> NAMESPACES[nsIdx], vector |-> query_vector,
                top_k |-> TopK, ok |-> TRUE, matches |-> hits])
        /\ all_matches' = all_matches \o Tagged(hits, NAMESPACES[nsIdx])
    /\ nsIdx' = nsIdx + 1
    /\ UNCHANGED <<config, previous>>
    /\ UNCHANGED <<messages, pc, prompt, query_vector, sorted_matches, ranked,
                   context, debug_text, modelIdx, calls, response_text,
                   sources_text>>

\* lines 63-64: the query of one namespace raises
QueryFails ==
    /\ pc = "search"
    /\ nsIdx <= Len(NAMESPACES)
    /\ queries' = Append(queries,
           [namespace |-> NAMESPACES[nsIdx], vector |-> query_vector,
            top_k |-> TopK, ok |-> FALSE, matches |-> << >>])
    /\ nsIdx' = AfterFailedQuery(nsIdx)
    /\ UNCHANGED <<config, previous>>
    /\ UNCHANGED <<messages, pc, prompt, query_vector, all_matches, sorted_matches,
                   ranked, context, debug_text, modelIdx, calls, response_text,
                   sources_text>>

QueryRich == Query([n \in 1..Len(NAMESPACES) |-> RichResults(n)])

QueryCoarse == Query([n \in 1..Len(NAMESPACES) |-> CoarseResults(n)])

\* line 66: x['score'] raises KeyError on a match without score
ScoreMissing(ms) == \E i \in 1..Len(ms) : "score" \notin DOMAIN ms[i]

\* line 72: match['metadata'] raises KeyError on one of the first five matches
MetadataMissing(sm) ==
    \E i \in 1..Min(ContextCap, Len(sm)) : "metadata" \notin DOMAIN sm[i]

\* lines 66-81 are outside every try: whether retrieve_context raises
AssemblyRaises(ms) ==
    IF ScoreMissing(ms) THEN TRUE ELSE MetadataMissing(SortedMatches(ms))

\* lines 66-81: sort, cap, skip empty texts, build context and debug_text
Assemble ==
    /\ pc = "search"
    /\ nsIdx > Len(NAMESPACES)
    /\ ~AssemblyRaises(all_matches)
    /\ LET sm == SortedMatches(all_matches)
           kept == SelectSeq(TopMatches(sm), KeepMatch)
       IN  /\ sorted_matches' = sm
           /\ ranked' = kept
           /\ context' = Join([i \in 1..Len(kept) |-> TextContent(kept[i])])
           /\ debug_text' = [i \in 1..Len(kept) |-> DebugBlock(kept[i])]
    /\ pc' = "check"
    /\ UNCHANGED <<config, previous>>
    /\ UNCHANGED <<messages, prompt, query_vector, nsIdx, queries, all_matches,
                   modelIdx, calls, response_text, sources_text>>

\* lines 66-72 raise: the exception leaves retrieve_context, get_response
\* (line 84) and the script run (line 138)
AssembleRaises ==
    /\ pc = "search"
    /\ nsIdx > Len(NAMESPACES)
    /\ AssemblyRaises(all_matches)
    /\ pc' = "crashed"
    /\ UNCHANGED <<messages, prompt, query_vector, nsIdx, queries, all_matches,
                   sorted_matches, ranked, context, debug_text, modelIdx, calls,
                   response_text, sources_text, config, previous>>

QueryMalformed == Query([n \in 1..Len(NAMESPACES) |-> MalformedResults(n)])

(***************************************************************************)
(* retrieve_context alone, on one prompt, over the exhaustive result lists *)
(***************************************************************************)
InitRetrieve ==
    /\ prompt \in Prompts
    /\ messages = << [role |-> "user", content |-> prompt] >>
    /\ pc = "embed"
    /\ query_vector = NoVector
    /\ nsIdx = 1
    /\ queries = << >>
    /\ all_matches = << >>
    /\ sorted_matches = << >>
    /\ ranked = << >>
    /\ context = EmptyStr
    /\ debug_text = << >>
    /\ modelIdx = 1
    /\ calls = << >>
    /\ response_text = None
    /\ sources_text = << >>
    /\ config = Configured
    /\ previous = NoTurn

NextRetrieve ==
    \/ Embed
    \/ EmbedFails
    \/ QueryRich
    \/ QueryFails
    \/ Assemble

SpecRetrieve == InitRetrieve /\ [][NextRetrieve]_vars

(***************************************************************************)
(* get_response (lines 83-115)                                             *)
(***************************************************************************)
IsEmptyContext_never(c) == FALSE

IsEmptyContext_noMatches(c) == all_matches = << >>

\* if not context:
IsEmptyContext(c) == c = EmptyStr

\* lines 89-101: the f-string around {context}
SystemPrompt(c) == [rule |-> "Answer based ONLY on the context below.", context |-> c]

BuildMessages_withHistory(user_input) ==
    messages \o << [role |-> "user", content |-> user_input] >>

\* line 109: messages=[{"role": "user", "content": user_input}]
BuildMessages(user_input) == << [role |-> "user", content |-> user_input] >>

NoContext_appends ==
    /\ pc = "check"
    /\ IsEmptyContext(context)
    /\ response_text' = NothingFound
    /\ sources_text' = << >>
    /\ messages' = Append(messages, [role |-> "assistant", content |-> NothingFound])
    /\ pc' = "append"
    /\ UNCHANGED <<prompt, query_vector, nsIdx, queries, all_matches,
                   sorted_matches, ranked, context, debug_text, modelIdx, calls,
                   config, previous>>

\* lines 86-87: nothing retrieved, no model is called
NoContext ==
    /\ pc = "check"
    /\ IsEmptyContext(context)
    /\ response_text' = NothingFound
    /\ sources_text' = << >>
    /\ pc' = "append"
    /\ UNCHANGED <<config, previous>>
    /\ UNCHANGED <<messages, prompt, query_vector, nsIdx, queries, all_matches,
                   sorted_matches, ranked, context, debug_text, modelIdx, calls>>

\* lines 89-103: the loop over models_to_try starts
HasContext ==
    /\ pc = "check"
    /\ ~IsEmptyContext(context)
    /\ modelIdx' = 1
    /\ pc' = "generate"
    /\ UNCHANGED <<config, previous>>
    /\ UNCHANGED <<messages, prompt, query_vector, nsIdx, queries, all_matches,
                   sorted_matches, ranked, context, debug_text, calls,
                   response_text, sources_text>>

\* the request of lines 107-110 for the model the loop is at
Request(i) ==
    [model |-> models_to_try[i], system |-> SystemPrompt(context),
     messages |-> BuildMessages(prompt)]

Reply(i, ok, text) == [request |-> Request(i), ok |-> ok, text |-> text]

\* what line 111 returns as the second component
ReturnedSources_none(d) == << >>

ReturnedSources(d) == d

\* lines 107-111: the call succeeds and its text is returned at once
ModelSucceeds ==
    /\ pc = "generate"
    /\ modelIdx <= Len(models_to_try)
    /\ \E text \in AnswerTexts :
        /\ calls' = Append(calls, Reply(modelIdx, TRUE, text))
        /\ response_text' = text
    /\ sources_text' = ReturnedSources(debug_text)
    /\ pc' = "append"
    /\ UNCHANGED <<config, previous>>
    /\ UNCHANGED <<messages, prompt, query_vector, nsIdx, queries, all_matches,
                   sorted_matches, ranked, context, debug_text, modelIdx>>

\* where the loop of line 105 goes after a call that raised
AfterFailedModel_break(i) == Len(models_to_try) + 1

AfterFailedModel(i) == i + 1

\* lines 112-113: the call raises, the loop moves on
ModelFails ==
    /\ pc = "generate"
    /\ modelIdx <= Len(models_to_try)
    /\ calls' = Append(calls, Reply(modelIdx, FALSE, None))
    /\ modelIdx' = AfterFailedModel(modelIdx)
    /\ UNCHANGED <<config, previous>>
    /\ UNCHANGED <<messages, pc, prompt, query_vector, nsIdx, queries, all_matches,
                   sorted_matches, ranked, context, debug_text, response_text,
                   sources_text>>

\* what line 115 returns as the second component
ExhaustedSources_kept(d) == d

ExhaustedSources(d) == << >>

\* line 115: the list is exhausted
AllModelsFailed ==
    /\ pc = "generate"
    /\ modelIdx > Len(models_to_try)
    /\ response_text' = ConnectError
    /\ sources_text' = ExhaustedSources(debug_text)
    /\ pc' = "append"
    /\ UNCHANGED <<config, previous>>
    /\ UNCHANGED <<messages, prompt, query_vector, nsIdx, queries, all_matches,
                   sorted_matches, ranked, context, debug_text, modelIdx, calls>>

(***************************************************************************)
(* Chat interface (lines 118-149)                                          *)
(***************************************************************************)
UserTurns(history) == Cardinality({i \in 1..Len(history) : history[i].role = "user"})

\* line 54: all_matches = [] in every call of retrieve_context
FreshMatches_global(old) == old

FreshMatches(old) == << >>

\* lines 131-138: the prompt is appended and get_response is entered with
\* fresh locals
EnterTurn ==
    /\ \E p \in Prompts :
        /\ prompt' = p
        /\ messages' = Append(messages, [role |-> "user", content |-> p])
    /\ pc' = "embed"
    /\ query_vector' = NoVector
    /\ nsIdx' = 1
    /\ queries' = << >>
    /\ all_matches' = FreshMatches(all_matches)
    /\ sorted_matches' = << >>
    /\ ranked' = << >>
    /\ context' = EmptyStr
    /\ debug_text' = << >>
    /\ modelIdx' = 1
    /\ calls' = << >>
    /\ response_text' = None
    /\ sources_text' = << >>
    /\ UNCHANGED config

\* lines 130-138: a prompt arrives (also to a session whose last script run
\* ended in an exception)
ChatInput ==
    /\ pc \in {"idle", "crashed"}
    /\ UserTurns(messages) < MaxTurns
    /\ EnterTurn
    /\ previous' = NoTurn

\* what the upstream services answered in a turn, and what the turn produced
Replies(log) == [i \in 1..Len(log) |-> [ok |-> log[i].ok, text |-> log[i].text]]

TurnRecord ==
    [prompt |-> prompt, query_vector |-> query_vector, queries |-> queries,
     replies |-> Replies(calls), ranked |-> ranked, context |-> context,
     debug_text |-> debug_text, response_text |-> response_text,
     sources_text |-> sources_text]

\* lines 130-138 for the second prompt of a session, the first turn being
\* recorded for comparison
ChatInputAgain ==
    /\ pc = "idle"
    /\ UserTurns(messages) = 1
    /\ EnterTurn
    /\ previous' = TurnRecord

\* lines 145-149: the outcome is appended as the assistant's turn
AppendAssistant ==
    /\ pc = "append"
    /\ messages' = Append(messages,
           [role |-> "assistant", content |-> response_text,
            sources |-> sources_text])
    /\ pc' = "idle"
    /\ UNCHANGED <<config, previous>>
    /\ UNCHANGED <<prompt, query_vector, nsIdx, queries, all_matches,
                   sorted_matches, ranked, context, debug_text, modelIdx, calls,
                   response_text, sources_text>>

\* lines 118-119: a new session
Init ==
    /\ messages = << >>
    /\ pc = "idle"
    /\ prompt = None
    /\ query_vector = NoVector
    /\ nsIdx = 1
    /\ queries = << >>
    /\ all_matches = << >>
    /\ sorted_matches = << >>
    /\ ranked = << >>
    /\ context = EmptyStr
    /\ debug_text = << >>
    /\ modelIdx = 1
    /\ calls = << >>
    /\ response_text = None
    /\ sources_text = << >>
    /\ config = Configured
    /\ previous = NoTurn

Next ==
    \/ ChatInput
    \/ Embed
    \/ EmbedFails
    \/ QueryCoarse
    \/ QueryFails
    \/ Assemble
    \/ NoContext
    \/ HasContext
    \/ ModelSucceeds
    \/ ModelFails
    \/ AllModelsFailed
    \/ AppendAssistant

Spec == Init /\ [][Next]_vars

(***************************************************************************)
(* The session in which the second turn is compared with the first         *)
(***************************************************************************)
NextTwice ==
    \/ ChatInputAgain
    \/ Next

SpecTwice == Init /\ [][NextTwice]_vars

(***************************************************************************)
(* Configuration and init_clients (lines 9-39)                             *)
(***************************************************************************)
\* What the process can start with: st.secrets holds any subset of the three
\* keys (no secrets.toml behaves as the empty one: line 14 catches both
\* errors), and os.environ already holds any subset of the two it is read for.
StartConfigs ==
    {[secrets |-> sec, preset |-> pre, environ |-> pre, pinecone_key |-> FALSE] :
        sec \in SUBSET {SecretsOrder[i] : i \in 1..3}, pre \in SUBSET EnvironKeys}

\* the assignments of lines 11-13 that run before the first KeyError
LoadedKeys(sec) ==
    {SecretsOrder[i] : i \in {j \in 1..3 : \A k \in 1..j : SecretsOrder[k] \in sec}}

\* lines 9-17: the try block, and the except that passes
LoadSecrets ==
    /\ pc = "config"
    /\ config' = [config EXCEPT
           !.environ = @ \cup (LoadedKeys(config.secrets) \cap EnvironKeys),
           !.pinecone_key = "PINECONE_API_KEY" \in LoadedKeys(config.secrets)]
    /\ pc' = "init_clients"
    /\ UNCHANGED <<messages, prompt, query_vector, nsIdx, queries, all_matches,
                   sorted_matches, ranked, context, debug_text, modelIdx, calls,
                   response_text, sources_text, previous>>

\* lines 33-35: st.error and st.stop
InitClientsStops ==
    /\ pc = "init_clients"
    /\ "OPENAI_API_KEY" \notin config.environ
    /\ pc' = "stopped"
    /\ UNCHANGED <<messages, prompt, query_vector, nsIdx, queries, all_matches,
                   sorted_matches, ranked, context, debug_text, modelIdx, calls,
                   response_text, sources_text, config, previous>>

\* line 36: the name PINECONE_API_KEY was never bound, NameError
InitClientsRaises ==
    /\ pc = "init_clients"
    /\ "OPENAI_API_KEY" \in config.environ
    /\ ~config.pinecone_key
    /\ pc' = "startup_crashed"
    /\ UNCHANGED <<messages, prompt, query_vector, nsIdx, queries, all_matches,
                   sorted_matches, ranked, context, debug_text, modelIdx, calls,
                   response_text, sources_text, config, previous>>

\* lines 36-39 and 118-119: the three clients are constructed (the
\* anthropic client is constructed whether or not its key is set) and the
\* script reaches the chat interface
InitClientsOk ==
    /\ pc = "init_clients"
    /\ "OPENAI_API_KEY" \in config.environ
    /\ config.pinecone_key
    /\ pc' = "idle"
    /\ UNCHANGED <<messages, prompt, query_vector, nsIdx, queries, all_matches,
                   sorted_matches, ranked, context, debug_text, modelIdx, calls,
                   response_text, sources_text, config, previous>>

\* the browser reloads the page: the script runs again in the same process,
\* os.environ as the last run left it
Rerun ==
    /\ pc \in {"stopped", "startup_crashed"}
    /\ config' = [config EXCEPT !.pinecone_key = FALSE]
    /\ pc' = "config"
    /\ UNCHANGED <<messages, prompt, query_vector, nsIdx, queries, all_matches,
                   sorted_matches, ranked, context, debug_text, modelIdx, calls,
                   response_text, sources_text, previous>>

InitStartup ==
    /\ config \in StartConfigs
    /\ pc = "config"
    /\ messages = << >>
    /\ prompt = None
    /\ query_vector = NoVector
    /\ nsIdx = 1
    /\ queries = << >>
    /\ all_matches = << >>
    /\ sorted_matches = << >>
    /\ ranked = << >>
    /\ context = EmptyStr
    /\ debug_text = << >>
    /\ modelIdx = 1
    /\ calls = << >>
    /\ response_text = None
    /\ sources_text = << >>
    /\ previous = NoTurn

NextStartup ==
    \/ LoadSecrets
    \/ InitClientsStops
    \/ InitClientsRaises
    \/ InitClientsOk
    \/ Rerun
    \/ Next

SpecStartup == InitStartup /\ [][NextStartup]_vars

(***************************************************************************)
(* The session over an index that returns matches without metadata or      *)
(* score                                                                   *)
(***************************************************************************)
NextMalformed ==
    \/ ChatInput
    \/ Embed
    \/ EmbedFails
    \/ QueryMalformed
    \/ QueryFails
    \/ Assemble
    \/ AssembleRaises
    \/ NoContext
    \/ HasContext
    \/ ModelSucceeds
    \/ ModelFails
    \/ AllModelsFailed
    \/ AppendAssistant

SpecMalformed == Init /\ [][NextMalformed]_vars

(***************************************************************************)
(* Properties                                                              *)
(***************************************************************************)
Last(s) == s[Len(s)]

Returned == pc = "append"

RetrievalReturned == pc = "check"

SomeQueryOk == \E i \in 1..Len(queries) : queries[i].ok

NoQueryHit ==
    /\ Len(queries) = Len(NAMESPACES)
    /\ \A i \in 1..Len(queries) : ~queries[i].ok \/ queries[i].matches = << >>

SameMatch(a, b) == a.source_namespace = b.source_namespace /\ a.id = b.id

Survives(m) == \E i \in 1..Len(ranked) : SameMatch(ranked[i], m)

\* C1: the models are called in the order of models_to_try, each one only
\* after every earlier one failed; a returned outcome that follows a
\* successful call is that call's text with the retrieval's debug_text, the
\* successful call is the last one issued, and the connection-error outcome
\* is returned only after every model of the list was called and failed.
C1_FirstSuccessWins ==
    /\ Len(calls) <= Len(models_to_try)
    /\ \A i \in 1..Len(calls) :
        /\ calls[i].request.model = models_to_try[i]
        /\ i < Len(calls) => ~calls[i].ok
    /\ (Returned /\ calls # << >> /\ Last(calls).ok) =>
        /\ response_text = Last(calls).text
        /\ response_text \in AnswerTexts
        /\ sources_text = debug_text
    /\ (Returned /\ response_text = ConnectError) =>
        /\ Len(calls) = Len(models_to_try)
        /\ \A i \in 1..Len(calls) : ~calls[i].ok

\* C1 witness: the third model answers after the first two failed.
C1_Witness ==
    /\ Returned
    /\ Len(calls) = 3
    /\ ~calls[1].ok /\ ~calls[2].ok /\ calls[3].ok
    /\ response_text = calls[3].text

AllModelsTriedAndFailed ==
    /\ Len(calls) = Len(models_to_try)
    /\ \A i \in 1..Len(calls) : ~calls[i].ok

\* C2: once every model of the list has failed on a non-empty context, the
\* loop can only fall through to line 115, and what get_response returns is
\* the fixed connection-error message with an empty provenance string, while
\* the debug_text of the retrieval is not empty.
C2_AllFailedOutcome ==
    AllModelsTriedAndFailed =>
        /\ context # EmptyStr
        /\ debug_text # << >>
        /\ pc \in {"generate", "append", "idle"}
        /\ pc = "generate" => modelIdx > Len(models_to_try)
        /\ Returned => response_text = ConnectError /\ sources_text = << >>

\* C2 witness: the outcome of three failed calls is returned.
C2_Witness ==
    /\ Returned
    /\ AllModelsTriedAndFailed
    /\ debug_text # << >>
    /\ response_text = ConnectError

\* C3: when retrieve_context returns after at least one successful query,
\* the matches kept for the context are at most 5 and their scores never
\* increase along the list.
C3_CappedAndSorted ==
    (RetrievalReturned /\ SomeQueryOk) =>
        /\ Len(ranked) <= 5
        /\ \A i, j \in 1..Len(ranked) : i < j => ranked[i].score >= ranked[j].score

\* C3 witness: six candidates, five of them kept, with different scores.
C3_Witness ==
    /\ RetrievalReturned
    /\ SomeQueryOk
    /\ Len(all_matches) > 5
    /\ Len(ranked) = 5
    /\ ranked[1].score > ranked[5].score

HigherScored(m) == {i \in 1..Len(all_matches) : all_matches[i].score > m.score}

AmongTheBest == \A i \in 1..Len(ranked) : Cardinality(HigherScored(ranked[i])) < 5

IsScenario ==
    /\ Len(queries) = 3
    /\ \A n \in 1..3 : queries[n].ok /\ queries[n].matches = ScenarioHits(n)

ScenarioOutcome ==
    /\ [i \in 1..Len(ranked) |-> ranked[i].score] = <<950, 910, 880, 770, 700>>
    /\ [i \in 1..Len(ranked) |-> ranked[i].source_namespace] =
           <<NAMESPACES[3], NAMESPACES[1], NAMESPACES[2], NAMESPACES[1], NAMESPACES[2]>>

\* C4 as stated: every kept match is among the 5 highest-scoring candidates,
\* NO candidate that was not kept has a strictly higher score than a kept
\* one, and the scenario yields 0.95, 0.91, 0.88, 0.77, 0.70.
C4_Original ==
    RetrievalReturned =>
        /\ AmongTheBest
        /\ \A c \in 1..Len(all_matches), r \in 1..Len(ranked) :
               ~Survives(all_matches[c]) => all_matches[c].score <= ranked[r].score
        /\ IsScenario => ScenarioOutcome

\* C4 as amended: every kept match is among the 5 highest-scoring candidates
\* of the merged list, no candidate WITH A TEXT that was not kept has a
\* strictly higher score than a kept one, whichever namespace each came
\* from, and the scenario yields 0.95, 0.91, 0.88, 0.77, 0.70 in that order.
C4_GlobalTopFive ==
    RetrievalReturned =>
        /\ AmongTheBest
        /\ \A c \in 1..Len(all_matches), r \in 1..Len(ranked) :
               (~Survives(all_matches[c]) /\ TextContent(all_matches[c]) # EmptyStr)
                   => all_matches[c].score <= ranked[r].score
        /\ IsScenario => ScenarioOutcome

\* C4 witness: the scenario of nine candidates, returned in the stated order.
C4_Witness == RetrievalReturned /\ IsScenario /\ ScenarioOutcome

Separator(s, i) == s[i] = "\n" /\ s[i + 1] = "\n"

\* C5: when retrieve_context returns, no kept match has an empty or missing
\* text, debug_text has one block per match of the first five that has a
\* text and none of its blocks has an empty preview, and the context has no
\* empty entry (it neither starts nor ends with the separator and never has
\* two separators in a row).
C5_NoEmptyText ==
    RetrievalReturned =>
        /\ \A i \in 1..Len(ranked) : TextContent(ranked[i]) # EmptyStr
        /\ \A i \in 1..Len(all_matches) :
               TextContent(all_matches[i]) = EmptyStr => ~Survives(all_matches[i])
        /\ \A i \in 1..Len(debug_text) : debug_text[i].preview # EmptyStr
        /\ Len(debug_text) =
               Cardinality({i \in 1..Min(5, Len(sorted_matches)) :
                               TextContent(sorted_matches[i]) # EmptyStr})
        /\ context # EmptyStr =>
               /\ context[1] # "\n"
               /\ Last(context) # "\n"
               /\ \A i \in 1..(Len(context) - 3) :
                      ~(Separator(context, i) /\ Separator(context, i + 2))

\* C5 witness: among the first five there are a match with an empty text and
\* a match with no text key, and something is kept.
C5_Witness ==
    /\ RetrievalReturned
    /\ \E i, j \in 1..Min(5, Len(sorted_matches)) :
        /\ "text" \notin DOMAIN sorted_matches[i].metadata
        /\ "text" \in DOMAIN sorted_matches[j].metadata
        /\ sorted_matches[j].metadata.text = EmptyStr
    /\ Len(ranked) >= 2

\* C6: when retrieve_context returns after a successful embedding, every
\* namespace of NAMESPACES was queried exactly once, in order, whichever
\* queries failed; a failed query contributes no match, and all_matches is
\* exactly the tagged results of the successful queries, in order.
C6_Isolation ==
    (RetrievalReturned /\ query_vector # NoVector) =>
        /\ [i \in 1..Len(queries) |-> queries[i].namespace] = NAMESPACES
        /\ \A i \in 1..Len(all_matches) :
               \E q \in 1..Len(queries) :
                   /\ queries[q].ok
                   /\ queries[q].namespace = all_matches[i].source_namespace
        /\ \A q \in 1..Len(queries) : queries[q].ok =>
               \A h \in 1..Len(queries[q].matches) :
                   \E i \in 1..Len(all_matches) :
                       all_matches[i] = Tagged(queries[q].matches, queries[q].namespace)[h]
        /\ Len(all_matches) =
               Len(queries[1].matches) + Len(queries[2].matches) + Len(queries[3].matches)

\* C6 witness: the first and the last query fail, the second one returns
\* matches, which are the candidates.
C6_Witness ==
    /\ RetrievalReturned
    /\ Len(queries) = 3
    /\ ~queries[1].ok /\ queries[2].ok /\ ~queries[3].ok
    /\ all_matches # << >>

\* C7: when every query failed or returned no match, nothing is kept, the
\* context and debug_text are empty, no model is called, and get_response
\* returns the fixed nothing-found message with an empty provenance.
C7_NothingFound ==
    (pc \in {"check", "generate", "append"} /\ query_vector # NoVector /\ NoQueryHit) =>
        /\ ranked = << >>
        /\ context = EmptyStr
        /\ debug_text = << >>
        /\ pc # "generate"
        /\ calls = << >>
        /\ Returned => response_text = NothingFound /\ sources_text = << >>

\* C7 witness: all three queries raised and the nothing-found outcome is
\* returned.
C7_Witness ==
    /\ Returned
    /\ Len(queries) = 3
    /\ \A i \in 1..3 : ~queries[i].ok
    /\ response_text = NothingFound

EmbeddingFailed == pc \in {"check", "generate", "append", "idle"} /\ query_vector = NoVector

\* C8: when the embedding call failed, no namespace is queried, context and
\* debug_text are empty, no model is called, get_response returns the
\* nothing-found message with an empty provenance, and that outcome becomes
\* the assistant's turn.
C8_EmbeddingFailure ==
    (EmbeddingFailed /\ prompt # None) =>
        /\ queries = << >>
        /\ all_matches = << >>
        /\ context = EmptyStr
        /\ debug_text = << >>
        /\ pc # "generate"
        /\ calls = << >>
        /\ Returned => response_text = NothingFound /\ sources_text = << >>
        /\ pc = "idle" =>
               Last(messages) = [role |-> "assistant", content |-> NothingFound,
                                 sources |-> << >>]

\* C8 witness: the turn of a failed embedding has been answered.
C8_Witness ==
    /\ pc = "idle"
    /\ prompt # None
    /\ query_vector = NoVector
    /\ Last(messages).content = NothingFound

CurrentQuery == [role |-> "user", content |-> prompt]

\* C9: the messages of every model call end with the current prompt as a
\* user message, which is not repeated before it, and every element has
\* exactly the fields role and content (so no 'sources').
C9_MessagesSent ==
    \A c \in 1..Len(calls) :
        LET sent == calls[c].request.messages
        IN  /\ sent # << >>
            /\ Last(sent) = CurrentQuery
            /\ Len(sent) >= 2 => sent[Len(sent) - 1] # CurrentQuery
            /\ \A i \in 1..Len(sent) : DOMAIN sent[i] = {"role", "content"}

\* C9 witness: a second model is called in a turn whose history holds an
\* assistant turn with a non-empty provenance.
C9_Witness ==
    /\ Len(calls) >= 2
    /\ \E i \in 1..Len(messages) :
        /\ "sources" \in DOMAIN messages[i]
        /\ messages[i].sources # << >>

Projected(history) ==
    [i \in 1..Len(history) |->
        [role |-> history[i].role, content |-> history[i].content]]

\* C10: the messages of every model call are the history without its last
\* turn, projected to role and content, followed by the current prompt.
C10_HistorySent ==
    (pc \in {"generate", "append"}) =>
        \A c \in 1..Len(calls) :
            calls[c].request.messages =
                Projected(SubSeq(messages, 1, Len(messages) - 1)) \o <<CurrentQuery>>

\* the place of a kept match in the merged list, i.e. its order of discovery
Discovered(m) == CHOOSE i \in 1..Len(all_matches) : SameMatch(all_matches[i], m)

\* C11: when retrieve_context returns, any two kept matches with the same
\* score stand in the order in which they were discovered (earlier
\* namespace first, earlier place in the same result list first).
C11_TiesKeepDiscoveryOrder ==
    RetrievalReturned =>
        \A i, j \in 1..Len(ranked) :
            (i < j /\ ranked[i].score = ranked[j].score)
                => Discovered(ranked[i]) < Discovered(ranked[j])

\* C11 witness: kept matches with one score from two namespaces, and two
\* kept matches with one score from the same result list.
C11_Witness ==
    /\ RetrievalReturned
    /\ \E i, j \in 1..Len(ranked) :
        /\ i < j
        /\ ranked[i].score = ranked[j].score
        /\ ranked[i].source_namespace # ranked[j].source_namespace
    /\ \E i, j \in 1..Len(ranked) :
        /\ i < j
        /\ ranked[i].score = ranked[j].score
        /\ ranked[i].source_namespace = ranked[j].source_namespace

\* C12: retrieve_context never raises to its caller, whatever the embedding,
\* the queries and the returned matches (a match without text, metadata or
\* score included) do.
C12_NeverRaises == pc # "crashed"

\* the positions inside get_embedding, retrieve_context and get_response
CorePositions == {"embed", "search", "check", "generate"}

\* C13: no step of get_embedding, retrieve_context or get_response changes
\* st.session_state.messages, on the success, no-context, all-models-failed
\* and raising paths alike; only the chat loop appends turns.
C13_HistoryFrame ==
    [][(pc \in CorePositions) => (messages' = messages)]_vars

\* C13 witness: get_response has returned after model calls and the history
\* still ends with the user turn the chat loop appended.
C13_Witness ==
    /\ Returned
    /\ calls # << >>
    /\ Len(messages) = 3
    /\ Last(messages) = [role |-> "user", content |-> prompt]

StartupPositions == {"config", "init_clients", "stopped", "startup_crashed"}

Serving == pc \notin StartupPositions

\* the three credentials the process was started with
CredentialsComplete ==
    /\ "OPENAI_API_KEY" \in config.secrets \cup config.preset
    /\ "ANTHROPIC_API_KEY" \in config.secrets \cup config.preset
    /\ "PINECONE_API_KEY" \in config.secrets

\* C14: a process started without one of the three credentials never
\* reaches the chat interface, and whenever it serves, both keys are in
\* os.environ and PINECONE_API_KEY is bound.
C14_NoPartialStart ==
    Serving =>
        /\ CredentialsComplete
        /\ EnvironKeys \subseteq config.environ
        /\ config.pinecone_key

\* C14 witness: only the language-model key is missing from st.secrets and
\* from the environment, and the script has ended in init_clients.
C14_Witness ==
    /\ pc = "startup_crashed"
    /\ config.secrets = {"OPENAI_API_KEY", "PINECONE_API_KEY"}
    /\ config.preset = {}

\* the turn in progress got the same text and the same upstream answers as
\* the recorded one
SameRetrievalInputs ==
    /\ previous # NoTurn
    /\ previous.prompt = prompt
    /\ previous.query_vector = query_vector
    /\ previous.queries = queries

SameInputs == SameRetrievalInputs /\ previous.replies = Replies(calls)

\* C15: a turn that gets the same user text and the same upstream answers as
\* an earlier turn of the session produces the same kept matches, context,
\* debug_text and outcome, although the history has grown in between.
C15_Deterministic ==
    /\ (pc = "check" /\ SameRetrievalInputs) =>
        /\ ranked = previous.ranked
        /\ context = previous.context
        /\ debug_text = previous.debug_text
    /\ (Returned /\ SameInputs) =>
        /\ ranked = previous.ranked
        /\ debug_text = previous.debug_text
        /\ response_text = previous.response_text
        /\ sources_text = previous.sources_text

\* C15 witness: the second turn repeated the first one, with passages kept
\* and a model answering after a failure.
C15_Witness ==
    /\ Returned
    /\ SameInputs
    /\ ranked # << >>
    /\ Len(calls) = 2

\* C16: in every turn whose assembled context is empty (embedding failed, no
\* match, or no match with a text among the first five) no model is called
\* and the outcome is the nothing-found message with an empty provenance;
\* no request to a model carries an empty context.
C16_HardRefusal ==
    /\ (pc \in {"check", "generate", "append"} /\ context = EmptyStr) =>
        /\ calls = << >>
        /\ pc # "generate"
        /\ Returned => response_text = NothingFound /\ sources_text = << >>
    /\ \A c \in 1..Len(calls) : calls[c].request.system.context # EmptyStr

\* C16 witness: the only match returned has no text, and the turn ended with
\* the nothing-found outcome.
C16_Witness ==
    /\ Returned
    /\ all_matches # << >>
    /\ ranked = << >>
    /\ context = EmptyStr
    /\ response_text = NothingFound

\* what the logs of a turn must look like at every moment
CallsInOrder ==
    /\ queries # << >> =>
        /\ query_vector # NoVector
        /\ \A i \in 1..Len(queries) : queries[i].vector = query_vector
    /\ Len(queries) <= Len(NAMESPACES)
    /\ \A i \in 1..Len(queries) : queries[i].namespace = NAMESPACES[i]
    /\ (pc \in {"check", "generate", "append", "crashed"} /\ query_vector # NoVector)
           => Len(queries) = Len(NAMESPACES)
    /\ (sorted_matches # << >> \/ ranked # << >> \/ calls # << >>)
           => Len(queries) = Len(NAMESPACES)
    /\ Len(calls) <= Len(models_to_try)
    /\ \A i \in 1..Len(calls) :
        /\ calls[i].request.model = models_to_try[i]
        /\ i < Len(calls) => ~calls[i].ok
    /\ calls # << >> => pc \in {"generate", "append", "idle"}

\* C17: in a turn the embedding is requested once, before any query and
\* with its vector used by every query; with a vector, each namespace is
\* queried exactly once; sorting and model calls come only after the three
\* queries returned or failed; each model is called at most once, in list
\* order, the next only after the previous one failed.
C17_CallOrder ==
    /\ []CallsInOrder
    /\ [][/\ (pc' = "embed") => (pc \in {"idle", "crashed"})
          /\ (pc = "embed") => (pc' \in {"search", "check"} /\ queries' = << >>)
          /\ (queries' # queries /\ pc # "idle" /\ pc # "crashed")
                 => (pc = "search" /\ Len(queries') = Len(queries) + 1)
          /\ (calls' # calls /\ pc # "idle" /\ pc # "crashed")
                 => (pc = "generate" /\ Len(calls') = Len(calls) + 1)]_vars

\* C17 witness: after a failed second query the second model answered.
C17_Witness ==
    /\ Returned
    /\ Len(queries) = 3
    /\ ~queries[2].ok
    /\ Len(calls) = 2
    /\ calls[2].ok

AbsDiff(a, b) == IF a < b THEN b - a ELSE a - b

\* the query that returned a kept match
ReturnedBy(m, q) ==
    /\ queries[q].ok
    /\ \E h \in 1..Len(queries[q].matches) :
        /\ queries[q].matches[h].id = m.id
        /\ queries[q].matches[h].score = m.score
        /\ queries[q].matches[h].metadata = m.metadata

\* C18: when retrieve_context returns, debug_text has exactly one block per
\* kept match and per passage of the context, in rank order; each block
\* names the namespace whose query returned that match, the match's score to
\* two decimals, and the beginning of its text.
C18_ProvenanceOneToOne ==
    RetrievalReturned =>
        /\ Len(debug_text) = Len(ranked)
        /\ (context = EmptyStr) <=> (debug_text = << >>)
        /\ context # EmptyStr =>
               Cardinality({i \in 1..(Len(context) - 1) : Separator(context, i)})
                   = Len(debug_text) - 1
        /\ \A i \in 1..Len(debug_text) :
            /\ debug_text[i].source = ranked[i].source_namespace
            /\ \E q \in 1..Len(queries) :
                /\ queries[q].namespace = debug_text[i].source
                /\ ReturnedBy(ranked[i], q)
            /\ AbsDiff(10 * debug_text[i].relevance, ranked[i].score) < 5
            /\ debug_text[i].preview = Take(ranked[i].metadata.text, 300)

\* C18 witness: blocks of all three namespaces, one of them for a score of
\* 0.708 shown as 0.71.
C18_Witness ==
    /\ RetrievalReturned
    /\ {debug_text[i].source : i \in 1..Len(debug_text)} =
           {NAMESPACES[n] : n \in 1..3}
    /\ \E i \in 1..Len(debug_text) :
           ranked[i].score = 708 /\ debug_text[i].relevance = 71

\* C19: the history alternates user, assistant: every user turn is answered
\* by one assistant turn before the next user turn is appended.
C19_Alternates ==
    \A i \in 1..Len(messages) :
        messages[i].role = (IF i % 2 = 1 THEN "user" ELSE "assistant")

\* C20: what get_response returns is the nothing-found message (no model
\* called), the connection-error message (every model called and failed) or
\* the text of the successful call; its provenance is empty in the first two
\* cases and is the non-empty debug_text of the retrieval in the third.
C20_OutcomeKinds ==
    Returned =>
        \/ /\ response_text = NothingFound
           /\ calls = << >>
           /\ sources_text = << >>
        \/ /\ response_text = ConnectError
           /\ AllModelsTriedAndFailed
           /\ sources_text = << >>
        \/ /\ calls # << >>
           /\ Last(calls).ok
           /\ response_text = Last(calls).text
           /\ sources_text = debug_text
           /\ sources_text # << >>

\* C20 witness: the first model answered over two kept passages.
C20_Witness ==
    /\ Returned
    /\ Len(calls) = 1
    /\ calls[1].ok
    /\ Len(sources_text) = 2

====
